---- MODULE Spec2Model ----
(***************************************************************************)
(* paperpipe: abstract extraction from the first page of a PDF.            *)
(*                                                                         *)
(*   pdf_tools/utils.py             clean_text, is_abstract_header,        *)
(*                                  filter_abnormal_words                  *)
(*   pdf_tools/pymupdf_tool.py      extract_abstract_pymupdf (gap based)   *)
(*   pdf_tools/unstructure_tool.py  extract_abstract_unstructured          *)
(*   pdf_parser.py                  PDFParser.extract_abstract             *)
(*                                                                         *)
(* Conventions.                                                            *)
(*   - A Python str is a sequence of one-character strings.                *)
(*   - Optional[T] is a sequence of length at most one: None is <<>> and   *)
(*     a present value v is <<v>>, so that None differs from the empty     *)
(*     string.                                                             *)
(*   - An exception message is a tuple of strings.                         *)
(*   - Page coordinates are integers; the mean of the gaps is kept exact   *)
(*     (sum and count), so the comparison of line 80 is the comparison of  *)
(*     rationals, without floating-point rounding.                         *)
(*   - Python indices start at 0: Idx(s, k) reads s[k].                    *)
(***************************************************************************)
EXTENDS Integers, Sequences, FiniteSets, TLC

VARIABLES
    gap,      \* one call of extract_abstract_pymupdf: its input and locals
    align,    \* one call of extract_abstract_unstructured
    orch      \* one call of PDFParser.extract_abstract

vars == <<gap, align, orch>>

----------------------------------------------------------------------------
(* Python values *)

None == <<>>

Some(v) == <<v>>

IsNone(o) == Len(o) = 0

Get(o) == o[1]

Idx(s, k) == s[k + 1]

Abs(n) == IF n < 0 THEN -n ELSE n

RECURSIVE Sum(_)
Sum(s) == IF Len(s) = 0 THEN 0 ELSE Head(s) + Sum(Tail(s))

----------------------------------------------------------------------------
(* str methods used by utils.py *)

Whitespace == {" ", "\n", "\t"}

LowerMap ==
    ("A" :> "a") @@ ("B" :> "b") @@ ("C" :> "c") @@ ("D" :> "d") @@
    ("H" :> "h") @@ ("I" :> "i") @@ ("O" :> "o") @@ ("P" :> "p") @@
    ("R" :> "r") @@ ("S" :> "s") @@ ("T" :> "t") @@ ("Y" :> "y")

LowerChar(c) == IF c \in DOMAIN LowerMap THEN LowerMap[c] ELSE c

Lower(text) == [i \in 1..Len(text) |-> LowerChar(text[i])]

StartsWith(text, prefix) ==
    /\ Len(text) >= Len(prefix)
    /\ SubSeq(text, 1, Len(prefix)) = prefix

Contains(text, sub) ==
    \E i \in 0..(Len(text) - Len(sub)) : SubSeq(text, i + 1, i + Len(sub)) = sub

\* text.split(): the maximal runs of non-whitespace characters, in order
RECURSIVE SplitFrom(_, _, _)
SplitFrom(text, cur, acc) ==
    IF Len(text) = 0
    THEN IF Len(cur) = 0 THEN acc ELSE Append(acc, cur)
    ELSE IF Head(text) \in Whitespace
         THEN SplitFrom(Tail(text), <<>>,
                        IF Len(cur) = 0 THEN acc ELSE Append(acc, cur))
         ELSE SplitFrom(Tail(text), Append(cur, Head(text)), acc)

Split(text) == SplitFrom(text, <<>>, <<>>)

\* sep.join(words)
RECURSIVE Join(_, _)
Join(sep, words) ==
    IF Len(words) = 0 THEN <<>>
    ELSE IF Len(words) = 1 THEN words[1]
    ELSE words[1] \o sep \o Join(sep, Tail(words))

RECURSIVE LStrip(_)
LStrip(text) ==
    IF Len(text) > 0 /\ Head(text) \in Whitespace THEN LStrip(Tail(text)) ELSE text

RECURSIVE RStrip(_)
RStrip(text) ==
    IF Len(text) > 0 /\ text[Len(text)] \in Whitespace
    THEN RStrip(SubSeq(text, 1, Len(text) - 1))
    ELSE text

Strip(text) == RStrip(LStrip(text))

----------------------------------------------------------------------------
(* pdf_tools/utils.py *)

clean_text(text) == Strip(Join(<<" ">>, Split(text)))

AbstractLiteral == <<"a", "b", "s", "t", "r", "a", "c", "t">>

is_abstract_header(text) ==
    StartsWith(Lower(Join(<<>>, Split(text))), AbstractLiteral)

\* The four lambdas of DEFAULT_ABNORMAL_PATTERNS, by name.  "Acirc" and
\* "(c)" stand for the two characters of the literal of line 24.
DEFAULT_ABNORMAL_PATTERNS == {"http", "copymark", "copyright", "doi"}

PatternMatches(p, w) ==
    CASE p = "http"      -> StartsWith(w, <<"h", "t", "t", "p">>)
      [] p = "copymark"  -> Contains(w, <<"Acirc", "(c)">>)
      [] p = "copyright" -> Contains(Lower(w), <<"c", "o", "p", "y", "r", "i", "g", "h", "t">>)
      [] p = "doi"       -> StartsWith(Lower(w), <<"d", "o", "i", ":">>)

RECURSIVE FilterWords(_, _, _)
FilterWords(words, patterns, filtered_words) ==
    IF Len(words) = 0 THEN filtered_words
    ELSE IF \E p \in patterns : PatternMatches(p, Head(words))
         THEN filtered_words
         ELSE FilterWords(Tail(words), patterns, Append(filtered_words, Head(words)))

filter_abnormal_words(text, patterns) ==
    Join(<<" ">>, FilterWords(Split(text), patterns, <<>>))

----------------------------------------------------------------------------
(* pdf_tools/pymupdf_tool.py *)

\* A block of page.get_text("blocks") is the tuple (x0, y0, x1, y1, text, ...).
Block(x0, y0, x1, y1, text) == <<x0, y0, x1, y1, text>>

get_block_gap(block1, block2) == Idx(block2, 1) - Idx(block1, 3)

find_abstract_block_idx(blocks) ==
    LET hits == {i \in 0..(Len(blocks) - 1) : is_abstract_header(Idx(Idx(blocks, i), 4))}
    IN  IF hits = {} THEN None
        ELSE Some(CHOOSE i \in hits : \A j \in hits : i <= j)

min_words_default == 100

initial_blocks_default == 5

\* gap_threshold is a fraction <<numerator, denominator>>; the default is 0.5
gap_threshold_default == <<1, 2>>

\* Line 77 and line 80 for a non-empty list of gaps:
\*   avg_gap = sum(gaps) / len(gaps);  abs(gap - avg_gap) > gap_threshold * avg_gap
\* with both sides multiplied by len(gaps) * denominator, which is positive.
GapDeviates(gap_, gaps, gap_threshold) ==
    gap_threshold[2] * Abs(gap_ * Len(gaps) - Sum(gaps)) > gap_threshold[1] * Sum(gaps)

\* The frame of a call: the arguments, and the locals before line 41.
GapCall(pdf, min_words, initial_blocks, gap_threshold) ==
    [pc |-> "open", pdf |-> pdf, min_words |-> min_words,
     initial_blocks |-> initial_blocks, gap_threshold |-> gap_threshold,
     doc_open |-> FALSE, blocks |-> <<>>, abstract_idx |-> None,
     collected_blocks |-> <<>>, gaps |-> <<>>, current_idx |-> 0,
     ret |-> None, exc |-> None]

GapRaise(g, message) == [g EXCEPT !.pc = "raised", !.exc = Some(message)]

\* doc.close() followed by a return statement
GapCloseAndReturn(g, value) ==
    [g EXCEPT !.pc = "returned", !.doc_open = FALSE, !.ret = value]

\* lines 41-43: doc = fitz.open(pdf_path); page = doc[0]; blocks = page.get_text("blocks")
G_Open(g) ==
    CASE g.pdf.fitz = "corrupt" -> GapRaise(g, <<"Failed to open file">>)
      [] g.pdf.fitz = "nopages" ->
            GapRaise([g EXCEPT !.doc_open = TRUE], <<"page not in document">>)
      [] OTHER -> [g EXCEPT !.pc = "find", !.doc_open = TRUE, !.blocks = g.pdf.blocks]

\* lines 45-48
G_Find(g) ==
    LET idx == find_abstract_block_idx(g.blocks)
    IN  IF IsNone(idx)
        THEN GapCloseAndReturn([g EXCEPT !.abstract_idx = idx], None)
        ELSE [g EXCEPT !.pc = "next", !.abstract_idx = idx]

\* lines 50-61
G_Next(g) ==
    LET i == Get(g.abstract_idx) + 1
    IN  IF i >= Len(g.blocks)
        THEN GapRaise(g, <<"list index out of range">>)
        ELSE LET next_block_text == Idx(Idx(g.blocks, i), 4)
             IN  IF Len(Split(next_block_text)) > g.min_words
                 THEN GapCloseAndReturn(g,
                          Some(filter_abnormal_words(next_block_text,
                                                     DEFAULT_ABNORMAL_PATTERNS)))
                 ELSE [g EXCEPT !.pc = "warmup",
                                !.collected_blocks = <<Idx(g.blocks, i)>>,
                                !.gaps = <<>>,
                                !.current_idx = i]

\* G_Warm with the warm-up test off by one: len(collected_blocks) <= initial_blocks
G_Warm_OneMore(g) ==
    IF g.current_idx < Len(g.blocks) - 1 /\ Len(g.collected_blocks) <= g.initial_blocks
    THEN LET current_block == Idx(g.blocks, g.current_idx)
             next_block    == Idx(g.blocks, g.current_idx + 1)
         IN  [g EXCEPT !.gaps = Append(@, get_block_gap(current_block, next_block)),
                       !.collected_blocks = Append(@, next_block),
                       !.current_idx = @ + 1]
    ELSE [g EXCEPT !.pc = "steady"]

\* lines 63-69: the loop test, then one pass of the body
G_Warm(g) ==
    IF g.current_idx < Len(g.blocks) - 1 /\ Len(g.collected_blocks) < g.initial_blocks
    THEN LET current_block == Idx(g.blocks, g.current_idx)
             next_block    == Idx(g.blocks, g.current_idx + 1)
         IN  [g EXCEPT !.gaps = Append(@, get_block_gap(current_block, next_block)),
                       !.collected_blocks = Append(@, next_block),
                       !.current_idx = @ + 1]
    ELSE [g EXCEPT !.pc = "steady"]

\* lines 71-85: the loop test, then one pass of the body
G_Steady(g) ==
    IF g.current_idx < Len(g.blocks) - 1
    THEN LET current_block == Idx(g.blocks, g.current_idx)
             next_block    == Idx(g.blocks, g.current_idx + 1)
             gap_          == get_block_gap(current_block, next_block)
         IN  IF Len(g.gaps) = 0
             THEN GapRaise(g, <<"division by zero">>)
             ELSE IF GapDeviates(gap_, g.gaps, g.gap_threshold)
                  THEN [g EXCEPT !.pc = "join"]
                  ELSE [g EXCEPT !.gaps = Append(@, gap_),
                                 !.collected_blocks = Append(@, next_block),
                                 !.current_idx = @ + 1]
    ELSE [g EXCEPT !.pc = "join"]

BlockTexts(blocks) == [i \in 1..Len(blocks) |-> Idx(blocks[i], 4)]

\* lines 87-88
G_Join(g) ==
    GapCloseAndReturn(g, Some(clean_text(Join(<<" ">>, BlockTexts(g.collected_blocks)))))

GapDone(g) == g.pc \in {"returned", "raised"}

GapStep(g) ==
    CASE g.pc = "open"   -> G_Open(g)
      [] g.pc = "find"   -> G_Find(g)
      [] g.pc = "next"   -> G_Next(g)
      [] g.pc = "warmup" -> G_Warm(g)
      [] g.pc = "steady" -> G_Steady(g)
      [] g.pc = "join"   -> G_Join(g)

\* the call run to its return or its exception
RECURSIVE RunGap(_)
RunGap(g) == IF GapDone(g) THEN g ELSE RunGap(GapStep(g))

extract_abstract_pymupdf(pdf, min_words, initial_blocks, gap_threshold) ==
    RunGap(GapCall(pdf, min_words, initial_blocks, gap_threshold))

----------------------------------------------------------------------------
(* pdf_tools/unstructure_tool.py *)

\* An element of partition_pdf: str(element) is its text; metadata.coordinates
\* is None or carries points, the four corners (top-left, bottom-left,
\* bottom-right, top-right), each (x, y).
Element(text, coordinates) == [text |-> text, metadata |-> [coordinates |-> coordinates]]

Points(left, top, width, height) ==
    <<<<left, top>>, <<left, top + height>>,
      <<left + width, top + height>>, <<left + width, top>>>>

x_tolerance_default == 20

\* hasattr(element, 'metadata') and element.metadata.coordinates
HasCoordinates(element) ==
    /\ "metadata" \in DOMAIN element
    /\ ~IsNone(element.metadata.coordinates)

PointsOf(element) == Get(element.metadata.coordinates)

\* lines 46-50: the index of the first element whose text is an abstract header
FindAbstractHeader(elements) ==
    LET hits == {i \in 0..(Len(elements) - 1) : is_abstract_header(Idx(elements, i).text)}
    IN  IF hits = {} THEN None
        ELSE Some(CHOOSE i \in hits : \A j \in hits : i <= j)

\* The frame of a call.  abstract_header and closest_block hold the index of
\* the element they refer to; closest_distance None is float('inf').
AlignCall(pdf, x_tolerance) ==
    [pc |-> "parse", pdf |-> pdf, x_tolerance |-> x_tolerance,
     elements |-> <<>>, abstract_header |-> None,
     closest_distance |-> None, closest_block |-> None,
     ret |-> None, exc |-> None]

AlignRaise(a, message) == [a EXCEPT !.pc = "raised", !.exc = Some(message)]

AlignReturn(a, value) == [a EXCEPT !.pc = "returned", !.ret = value]

\* line 43: elements = parse_pdf_unstructured(pdf_path)
A_Parse(a) ==
    IF a.pdf.partition = "fail"
    THEN AlignRaise(a, <<"partition_pdf failed">>)
    ELSE [a EXCEPT !.pc = "header", !.elements = a.pdf.elements]

\* lines 45-57
A_Header(a) ==
    LET h == FindAbstractHeader(a.elements)
    IN  IF IsNone(h) \/ "metadata" \notin DOMAIN Idx(a.elements, Get(h))
        THEN AlignReturn([a EXCEPT !.abstract_header = h], None)
        ELSE IF IsNone(Idx(a.elements, Get(h)).metadata.coordinates)
             THEN AlignReturn([a EXCEPT !.abstract_header = h], None)
             ELSE [a EXCEPT !.pc = "scan", !.abstract_header = h]

\* ScanElement without the test of line 84: the last qualifying element wins
ScanElement_LastWins(elements, header_points, x_tolerance, k, closest) ==
    LET element         == Idx(elements, k)
        header_left_x   == Idx(Idx(header_points, 0), 0)
        header_right_x  == Idx(Idx(header_points, 3), 0)
        header_bottom_y == Idx(Idx(header_points, 1), 1)
    IN  IF ~HasCoordinates(element) THEN closest
        ELSE LET block_points  == PointsOf(element)
                 block_left_x  == Idx(Idx(block_points, 0), 0)
                 block_right_x == Idx(Idx(block_points, 3), 0)
                 block_top_y   == Idx(Idx(block_points, 0), 1)
                 distance      == block_top_y - header_bottom_y
                 block_height  == Idx(Idx(block_points, 1), 1) - Idx(Idx(block_points, 0), 1)
                 header_height == Idx(Idx(header_points, 1), 1) - Idx(Idx(header_points, 0), 1)
             IN  IF \/ block_top_y < header_bottom_y
                    \/ block_left_x > header_left_x + x_tolerance
                    \/ block_right_x < header_right_x - x_tolerance
                 THEN closest
                 ELSE IF block_height > 2 * header_height
                      THEN <<Some(distance), Some(k)>>
                      ELSE closest

\* lines 69-89: one pass of the loop body for the element at index k, on the
\* pair <<closest_distance, closest_block>>
ScanElement(elements, header_points, x_tolerance, k, closest) ==
    LET element         == Idx(elements, k)
        header_left_x   == Idx(Idx(header_points, 0), 0)
        header_right_x  == Idx(Idx(header_points, 3), 0)
        header_bottom_y == Idx(Idx(header_points, 1), 1)
    IN  IF ~HasCoordinates(element) THEN closest
        ELSE LET block_points  == PointsOf(element)
                 block_left_x  == Idx(Idx(block_points, 0), 0)
                 block_right_x == Idx(Idx(block_points, 3), 0)
                 block_top_y   == Idx(Idx(block_points, 0), 1)
                 distance      == block_top_y - header_bottom_y
                 block_height  == Idx(Idx(block_points, 1), 1) - Idx(Idx(block_points, 0), 1)
                 header_height == Idx(Idx(header_points, 1), 1) - Idx(Idx(header_points, 0), 1)
             IN  IF \/ block_top_y < header_bottom_y
                    \/ block_left_x > header_left_x + x_tolerance
                    \/ block_right_x < header_right_x - x_tolerance
                 THEN closest
                 ELSE IF (IsNone(closest[1]) \/ distance < Get(closest[1]))
                         /\ block_height > 2 * header_height
                      THEN <<Some(distance), Some(k)>>
                      ELSE closest

\* lines 68-89: the loop over elements, from index k on
RECURSIVE ScanFrom(_, _, _, _, _)
ScanFrom(elements, header_points, x_tolerance, k, closest) ==
    IF k >= Len(elements) THEN closest
    ELSE ScanFrom(elements, header_points, x_tolerance, k + 1,
                  ScanElement(elements, header_points, x_tolerance, k, closest))

\* lines 59-89
A_Scan(a) ==
    LET header_points == PointsOf(Idx(a.elements, Get(a.abstract_header)))
        closest == ScanFrom(a.elements, header_points, a.x_tolerance, 0, <<None, None>>)
    IN  [a EXCEPT !.pc = "result", !.closest_distance = closest[1],
                  !.closest_block = closest[2]]

\* line 91
A_Result(a) ==
    IF IsNone(a.closest_block)
    THEN AlignReturn(a, None)
    ELSE AlignReturn(a, Some(clean_text(Idx(a.elements, Get(a.closest_block)).text)))

AlignDone(a) == a.pc \in {"returned", "raised"}

AlignStep(a) ==
    CASE a.pc = "parse"  -> A_Parse(a)
      [] a.pc = "header" -> A_Header(a)
      [] a.pc = "scan"   -> A_Scan(a)
      [] a.pc = "result" -> A_Result(a)

RECURSIVE RunAlign(_)
RunAlign(a) == IF AlignDone(a) THEN a ELSE RunAlign(AlignStep(a))

extract_abstract_unstructured(pdf, x_tolerance) == RunAlign(AlignCall(pdf, x_tolerance))

----------------------------------------------------------------------------
(* pdf_parser.py *)

\* **kwargs is the sequence of its <<name, value>> pairs, in call order.
KwNames(kwargs) == {kwargs[i][1] : i \in 1..Len(kwargs)}

KwGet(kwargs, name, default) ==
    IF name \in KwNames(kwargs)
    THEN kwargs[CHOOSE i \in 1..Len(kwargs) : kwargs[i][1] = name][2]
    ELSE default

\* The first keyword the callee's signature does not declare, if any
FirstUnexpected(kwargs, accepted) ==
    LET bad == {i \in 1..Len(kwargs) : kwargs[i][1] \notin accepted}
    IN  IF bad = {} THEN None
        ELSE Some(kwargs[CHOOSE i \in bad : \A j \in bad : i <= j][1])

\* What a call gave its caller: a returned Optional[str] or an exception message
Outcome(frame) ==
    [kind |-> IF frame.pc = "returned" THEN "return" ELSE "raise",
     ret  |-> frame.ret,
     exc  |-> frame.exc]

TypeErrorOutcome(function, keyword) ==
    [kind |-> "raise", ret |-> None,
     exc |-> Some(<<function, "got an unexpected keyword argument", keyword>>)]

\* pymupdf_tool.py lines 17-20: the signature declares min_words,
\* initial_blocks and gap_threshold, and no **kwargs
PymupdfKeywords == {"min_words", "initial_blocks", "gap_threshold"}

\* extract_abstract_pymupdf(pdf_path, **kwargs)
InvokePymupdf(pdf_path, kwargs) ==
    LET bad == FirstUnexpected(kwargs, PymupdfKeywords)
    IN  IF ~IsNone(bad)
        THEN TypeErrorOutcome("extract_abstract_pymupdf()", Get(bad))
        ELSE Outcome(extract_abstract_pymupdf(
                        pdf_path,
                        KwGet(kwargs, "min_words", min_words_default),
                        KwGet(kwargs, "initial_blocks", initial_blocks_default),
                        KwGet(kwargs, "gap_threshold", gap_threshold_default)))

\* unstructure_tool.py lines 26-27: the signature declares x_tolerance only
UnstructuredKeywords == {"x_tolerance"}

\* extract_abstract_unstructured(pdf_path, **kwargs)
InvokeUnstructured(pdf_path, kwargs) ==
    LET bad == FirstUnexpected(kwargs, UnstructuredKeywords)
    IN  IF ~IsNone(bad)
        THEN TypeErrorOutcome("extract_abstract_unstructured()", Get(bad))
        ELSE Outcome(extract_abstract_unstructured(
                        pdf_path,
                        KwGet(kwargs, "x_tolerance", x_tolerance_default)))

\* self.extraction_methods[name](pdf_path, **kwargs)
extraction_methods(name, pdf_path, kwargs) ==
    CASE name = "pymupdf"      -> InvokePymupdf(pdf_path, kwargs)
      [] name = "unstructured" -> InvokeUnstructured(pdf_path, kwargs)

AbstractExtractionResult(text, method, success, error) ==
    [text |-> text, method |-> method, success |-> success, error |-> error]

\* line 64
AltMethod(method) == IF method = "pymupdf" THEN "unstructured" ELSE "pymupdf"

\* The frame of a call of PDFParser.extract_abstract.  calls lists the
\* extractors invoked so far; primary and secondary record what the first
\* and the second invocation gave (None before the invocation).
OrchCall(pdf_path, method, fallback, kwargs) ==
    [pc |-> "exists", pdf_path |-> pdf_path, method |-> method,
     fallback |-> fallback, kwargs |-> kwargs,
     abstract |-> None, calls |-> <<>>, primary |-> None, secondary |-> None,
     result |-> None]

OrchReturn(o, result) == [o EXCEPT !.pc = "done", !.result = Some(result)]

\* O_Exists without the test of line 51
O_Exists_Unchecked(o) == [o EXCEPT !.pc = "primary"]

\* lines 48-57
O_Exists(o) ==
    IF ~o.pdf_path.exists
    THEN OrchReturn(o, AbstractExtractionResult(None, o.method, FALSE,
                                                Some(<<"File not found">>)))
    ELSE [o EXCEPT !.pc = "primary"]

\* O_Primary with an exception of the extractor treated like a None result
O_Primary_RaiseAsNone(o) ==
    LET out == extraction_methods(o.method, o.pdf_path, o.kwargs)
        o1  == [o EXCEPT !.calls = Append(@, o.method), !.primary = Some(out)]
    IN  IF out.kind = "raise"
        THEN [o1 EXCEPT !.pc = "check", !.abstract = None]
        ELSE [o1 EXCEPT !.pc = "check", !.abstract = out.ret]

\* line 60, and lines 83-89 when it raises
O_Primary(o) ==
    LET out == extraction_methods(o.method, o.pdf_path, o.kwargs)
        o1  == [o EXCEPT !.calls = Append(@, o.method), !.primary = Some(out)]
    IN  IF out.kind = "raise"
        THEN OrchReturn(o1, AbstractExtractionResult(None, o.method, FALSE,
                                                     Some(Get(out.exc))))
        ELSE [o1 EXCEPT !.pc = "check", !.abstract = out.ret]

\* O_Check with success not computed from the text
O_Check_AlwaysSuccess(o) ==
    IF IsNone(o.abstract) /\ o.fallback
    THEN [o EXCEPT !.pc = "fallback"]
    ELSE OrchReturn(o, AbstractExtractionResult(o.abstract, o.method, TRUE, None))

\* O_Check without the fallback flag in the test of line 63
O_Check_IgnoresFallbackFlag(o) ==
    IF IsNone(o.abstract)
    THEN [o EXCEPT !.pc = "fallback"]
    ELSE OrchReturn(o, AbstractExtractionResult(o.abstract, o.method,
                                                ~IsNone(o.abstract), None))

\* line 63, and lines 77-81 when there is no fallback to try
O_Check(o) ==
    IF IsNone(o.abstract) /\ o.fallback
    THEN [o EXCEPT !.pc = "fallback"]
    ELSE OrchReturn(o, AbstractExtractionResult(o.abstract, o.method,
                                                ~IsNone(o.abstract), None))

\* O_Fallback with a successful fallback tagged with the requested method
O_Fallback_PrimaryTag(o) ==
    LET alt_method == AltMethod(o.method)
        out == extraction_methods(alt_method, o.pdf_path, o.kwargs)
        o1  == [o EXCEPT !.calls = Append(@, alt_method), !.secondary = Some(out)]
    IN  IF out.kind = "raise"
        THEN OrchReturn(o1, AbstractExtractionResult(o.abstract, o.method,
                                                     ~IsNone(o.abstract), None))
        ELSE OrchReturn([o1 EXCEPT !.abstract = out.ret],
                        AbstractExtractionResult(out.ret, o.method,
                                                 ~IsNone(out.ret), None))

\* O_Fallback with the fallback's exception reported like the primary's
O_Fallback_SurfacesError(o) ==
    LET alt_method == AltMethod(o.method)
        out == extraction_methods(alt_method, o.pdf_path, o.kwargs)
        o1  == [o EXCEPT !.calls = Append(@, alt_method), !.secondary = Some(out)]
    IN  IF out.kind = "raise"
        THEN OrchReturn(o1, AbstractExtractionResult(None, o.method, FALSE,
                                                     Some(Get(out.exc))))
        ELSE IF ~IsNone(out.ret)
             THEN OrchReturn([o1 EXCEPT !.abstract = out.ret],
                             AbstractExtractionResult(out.ret, alt_method, TRUE, None))
             ELSE OrchReturn([o1 EXCEPT !.abstract = out.ret],
                             AbstractExtractionResult(out.ret, o.method,
                                                      ~IsNone(out.ret), None))

\* lines 64-75, then lines 77-81
O_Fallback(o) ==
    LET alt_method == AltMethod(o.method)
        out == extraction_methods(alt_method, o.pdf_path, o.kwargs)
        o1  == [o EXCEPT !.calls = Append(@, alt_method), !.secondary = Some(out)]
    IN  IF out.kind = "raise"
        THEN OrchReturn(o1, AbstractExtractionResult(o.abstract, o.method,
                                                     ~IsNone(o.abstract), None))
        ELSE IF ~IsNone(out.ret)
             THEN OrchReturn([o1 EXCEPT !.abstract = out.ret],
                             AbstractExtractionResult(out.ret, alt_method, TRUE, None))
             ELSE OrchReturn([o1 EXCEPT !.abstract = out.ret],
                             AbstractExtractionResult(out.ret, o.method,
                                                      ~IsNone(out.ret), None))

OrchStep(o) ==
    CASE o.pc = "exists"   -> O_Exists(o)
      [] o.pc = "primary"  -> O_Primary(o)
      [] o.pc = "check"    -> O_Check(o)
      [] o.pc = "fallback" -> O_Fallback(o)

RECURSIVE RunOrch(_)
RunOrch(o) == IF o.pc = "done" THEN o ELSE RunOrch(OrchStep(o))

\* PDFParser.extract_abstract as a function of its arguments and the file
extract_abstract(pdf_path, method, fallback, kwargs) ==
    Get(RunOrch(OrchCall(pdf_path, method, fallback, kwargs)).result)

----------------------------------------------------------------------------
(* One call of extract_abstract_pymupdf, statement by statement *)

MaxBlocks == 5

TxtAbstract == <<"A", "b", "s", "t", "r", "a", "c", "t">>

TxtShortA == <<"a", " ", " ", "b">>

TxtShortB == <<"c", "\n">>

TxtShortC == <<"\t", "d">>

TxtLong == <<"e", " ", "f", " ", "g", " ", "h", "t", "t", "p", " ", "i">>

\* Consecutive blocks of this set are 2, 3, 5, 6 or 9 apart, or overlap
\* (a negative gap) when they come out of page order.
GapBlocks ==
    { Block(0, 0, 1, 1, TxtAbstract),
      Block(0, 2, 1, 3, TxtShortA),
      Block(0, 5, 1, 6, TxtShortB),
      Block(0, 8, 1, 9, TxtLong),
      Block(0, 12, 1, 13, TxtShortC) }

SeqsUpTo(S, n) == UNION {[1..k -> S] : k \in 0..n}

GapPdfs ==
    {[fitz |-> "corrupt", blocks |-> <<>>], [fitz |-> "nopages", blocks |-> <<>>]}
    \cup {[fitz |-> "ok", blocks |-> b] : b \in SeqsUpTo(GapBlocks, MaxBlocks)}

GapMinWords == {2}

GapInitialBlocks == {1, 2, 3}

GapIdle == [pc |-> "idle"]

AlignIdle == [pc |-> "idle"]

OrchIdle == [pc |-> "idle"]

InitGap ==
    /\ \E pdf \in GapPdfs, mw \in GapMinWords, ib \in GapInitialBlocks :
          gap = GapCall(pdf, mw, ib, gap_threshold_default)
    /\ align = AlignIdle
    /\ orch = OrchIdle

GapOpen == gap.pc = "open" /\ gap' = G_Open(gap) /\ UNCHANGED <<align, orch>>

GapFind == gap.pc = "find" /\ gap' = G_Find(gap) /\ UNCHANGED <<align, orch>>

GapNext == gap.pc = "next" /\ gap' = G_Next(gap) /\ UNCHANGED <<align, orch>>

GapWarm == gap.pc = "warmup" /\ gap' = G_Warm(gap) /\ UNCHANGED <<align, orch>>

GapSteady == gap.pc = "steady" /\ gap' = G_Steady(gap) /\ UNCHANGED <<align, orch>>

GapJoin == gap.pc = "join" /\ gap' = G_Join(gap) /\ UNCHANGED <<align, orch>>

NextGap == GapOpen \/ GapFind \/ GapNext \/ GapWarm \/ GapSteady \/ GapJoin

SpecGap == InitGap /\ [][NextGap]_vars

----------------------------------------------------------------------------
(* One call of extract_abstract_unstructured *)

MaxElements == 3

TxtBodyNear == <<"x", " ", " ", "y">>

TxtBodyFar == <<"z", "\n">>

\* Header-sized elements (height 1) carry the header text; the others are
\* body elements of height 1 or 3 starting at y = 1 or y = 2.
AlignElements ==
    {Element(TxtAbstract, None), Element(TxtBodyNear, None)}
    \cup {Element(TxtAbstract, Some(Points(l, t, 1, 1))) : l \in {0, 1}, t \in {0, 1}}
    \cup {Element(IF t = 1 THEN TxtBodyNear ELSE TxtBodyFar, Some(Points(l, t, 1, h))) :
             l \in {0, 1}, t \in {1, 2}, h \in {1, 3}}

AlignPdfs ==
    {[partition |-> "fail", elements |-> <<>>]}
    \cup {[partition |-> "ok", elements |-> e] : e \in SeqsUpTo(AlignElements, MaxElements)}

AlignTolerances == {0, 1}

InitAlign ==
    /\ \E pdf \in AlignPdfs, tol \in AlignTolerances : align = AlignCall(pdf, tol)
    /\ gap = GapIdle
    /\ orch = OrchIdle

AlignParse == align.pc = "parse" /\ align' = A_Parse(align) /\ UNCHANGED <<gap, orch>>

AlignHeader == align.pc = "header" /\ align' = A_Header(align) /\ UNCHANGED <<gap, orch>>

AlignScan == align.pc = "scan" /\ align' = A_Scan(align) /\ UNCHANGED <<gap, orch>>

AlignResult == align.pc = "result" /\ align' = A_Result(align) /\ UNCHANGED <<gap, orch>>

NextAlign == AlignParse \/ AlignHeader \/ AlignScan \/ AlignResult

SpecAlign == InitAlign /\ [][NextAlign]_vars

----------------------------------------------------------------------------
(* One call of PDFParser.extract_abstract *)

\* What fitz finds in the file
OrchBlockDocs ==
    { [fitz |-> "corrupt", blocks |-> <<>>],
      [fitz |-> "ok", blocks |-> <<Block(0, 0, 1, 1, TxtAbstract)>>],
      [fitz |-> "ok", blocks |-> <<Block(0, 2, 1, 3, TxtShortA)>>],
      [fitz |-> "ok", blocks |-> <<Block(0, 0, 1, 1, TxtAbstract),
                                   Block(0, 2, 1, 3, TxtShortA),
                                   Block(0, 5, 1, 6, TxtShortB),
                                   Block(0, 12, 1, 13, TxtShortC)>>],
      [fitz |-> "ok", blocks |-> <<Block(0, 0, 1, 1, TxtAbstract),
                                   Block(0, 2, 1, 3, TxtLong)>>] }

\* What partition_pdf finds in the file
OrchElementDocs ==
    { [partition |-> "fail", elements |-> <<>>],
      [partition |-> "ok", elements |-> <<Element(TxtBodyNear, Some(Points(0, 1, 1, 3)))>>],
      [partition |-> "ok", elements |-> <<Element(TxtAbstract, None),
                                          Element(TxtBodyNear, Some(Points(0, 1, 1, 3)))>>],
      [partition |-> "ok", elements |-> <<Element(TxtAbstract, Some(Points(0, 0, 1, 1))),
                                          Element(TxtBodyNear, Some(Points(0, 1, 1, 3)))>>],
      [partition |-> "ok", elements |-> <<Element(TxtAbstract, Some(Points(0, 0, 1, 1))),
                                          Element(TxtBodyFar, Some(Points(1, 2, 1, 3)))>>] }

OrchFile(exists, b, e) ==
    [exists |-> exists, fitz |-> b.fitz, blocks |-> b.blocks,
     partition |-> e.partition, elements |-> e.elements]

MissingFile ==
    OrchFile(FALSE, [fitz |-> "corrupt", blocks |-> <<>>],
                    [partition |-> "fail", elements |-> <<>>])

OrchFiles ==
    {MissingFile} \cup {OrchFile(TRUE, b, e) : b \in OrchBlockDocs, e \in OrchElementDocs}

OrchMethods == {"pymupdf", "unstructured"}

OrchKwargs ==
    { <<>>,
      <<<<"x_tolerance", 0>>>>,
      <<<<"x_tolerance", 20>>>>,
      <<<<"min_words", 2>>>>,
      <<<<"initial_blocks", 1>>>>,
      <<<<"x_tolerance", 0>>, <<"min_words", 2>>>>,
      <<<<"min_words", 2>>, <<"x_tolerance", 0>>>> }

Init ==
    /\ \E f \in OrchFiles, m \in OrchMethods, fb \in BOOLEAN, kw \in OrchKwargs :
          orch = OrchCall(f, m, fb, kw)
    /\ gap = GapIdle
    /\ align = AlignIdle

Exists == orch.pc = "exists" /\ orch' = O_Exists(orch) /\ UNCHANGED <<gap, align>>

Primary == orch.pc = "primary" /\ orch' = O_Primary(orch) /\ UNCHANGED <<gap, align>>

Check == orch.pc = "check" /\ orch' = O_Check(orch) /\ UNCHANGED <<gap, align>>

Fallback == orch.pc = "fallback" /\ orch' = O_Fallback(orch) /\ UNCHANGED <<gap, align>>

Next == Exists \/ Primary \/ Check \/ Fallback

Spec == Init /\ [][Next]_vars

----------------------------------------------------------------------------
(* Properties of PDFParser.extract_abstract, checked under Spec *)

Returned == orch.pc = "done"

Result == Get(orch.result)

\* What the requested extractor gives for the arguments of the call
PrimaryOutcome == extraction_methods(orch.method, orch.pdf_path, orch.kwargs)

\* What the other extractor gives for the arguments of the call
AlternateOutcome == extraction_methods(AltMethod(orch.method), orch.pdf_path, orch.kwargs)

ReturnsNone(out) == out.kind = "return" /\ IsNone(out.ret)

ReturnsText(out) == out.kind = "return" /\ ~IsNone(out.ret)

\* C1: every result extract_abstract returns has success true if and only
\* if its text is not None and its error is None.
C1_SuccessIffTextAndNoError ==
    Returned => (Result.success <=> (~IsNone(Result.text) /\ IsNone(Result.error)))

\* A successful return through the fallback, next to the failures of the
\* other paths.
C1_Witness ==
    /\ Returned
    /\ Len(orch.calls) = 2
    /\ Result.success
    /\ ~IsNone(Result.text)

\* C2: when the file exists, the primary extractor returns None, fallback
\* is true and the alternate extractor returns a text, the result is a
\* success carrying the alternate's text under the alternate's name.
C2_FallbackSuccessTaggedAlternate ==
    (/\ Returned
     /\ orch.pdf_path.exists
     /\ orch.fallback
     /\ ReturnsNone(PrimaryOutcome)
     /\ ReturnsText(AlternateOutcome))
    => Result = AbstractExtractionResult(AlternateOutcome.ret, AltMethod(orch.method),
                                         TRUE, None)

C2_Witness ==
    /\ Returned
    /\ orch.pdf_path.exists
    /\ orch.fallback
    /\ ReturnsNone(PrimaryOutcome)
    /\ ReturnsText(AlternateOutcome)
    /\ Result.method # orch.method

KwWithout(kwargs, name) == SelectSeq(kwargs, LAMBDA pair : pair[1] # name)

\* C3: whenever the gap-based extractor is invoked with an x_tolerance
\* keyword, as primary or as fallback, it gives what it gives for the same
\* call without x_tolerance.
C3_XToleranceIgnoredByGapBased ==
    /\ (/\ ~IsNone(orch.primary)
        /\ orch.method = "pymupdf"
        /\ "x_tolerance" \in KwNames(orch.kwargs))
       => Get(orch.primary) =
             InvokePymupdf(orch.pdf_path, KwWithout(orch.kwargs, "x_tolerance"))
    /\ (/\ ~IsNone(orch.secondary)
        /\ orch.method = "unstructured"
        /\ "x_tolerance" \in KwNames(orch.kwargs))
       => Get(orch.secondary) =
             InvokePymupdf(orch.pdf_path, KwWithout(orch.kwargs, "x_tolerance"))

\* C4: when the primary extractor raises, the result is the failure that
\* carries the exception's message under the requested method, and only the
\* primary extractor was invoked, whatever fallback is; when the primary
\* extractor returns None the result has no error.
C4_PrimaryExceptionIsTerminal ==
    /\ (Returned /\ orch.pdf_path.exists /\ PrimaryOutcome.kind = "raise")
       => /\ Result = AbstractExtractionResult(None, orch.method, FALSE,
                                               Some(Get(PrimaryOutcome.exc)))
          /\ ~IsNone(Result.error)
          /\ orch.calls = <<orch.method>>
    /\ (Returned /\ orch.pdf_path.exists /\ ReturnsNone(PrimaryOutcome))
       => IsNone(Result.error)

C4_Witness ==
    /\ Returned
    /\ orch.pdf_path.exists
    /\ orch.fallback
    /\ PrimaryOutcome.kind = "raise"
    /\ ReturnsText(AlternateOutcome)
    /\ ~Result.success

\* C5: when the primary extractor returns None, fallback is true and the
\* alternate extractor returns None or raises, the result is text None,
\* success false, error None under the requested method.
C5_FallbackFailureSwallowed ==
    (/\ Returned
     /\ orch.pdf_path.exists
     /\ orch.fallback
     /\ ReturnsNone(PrimaryOutcome)
     /\ (ReturnsNone(AlternateOutcome) \/ AlternateOutcome.kind = "raise"))
    => Result = AbstractExtractionResult(None, orch.method, FALSE, None)

C5_Witness ==
    /\ Returned
    /\ orch.pdf_path.exists
    /\ orch.fallback
    /\ ReturnsNone(PrimaryOutcome)
    /\ AlternateOutcome.kind = "raise"
    /\ Len(orch.calls) = 2

\* C9: when the file does not exist the result is the failure "File not
\* found" under the requested method, and no extractor is invoked at any
\* point of the call.
C9_FileNotFound ==
    ~orch.pdf_path.exists
    => /\ orch.calls = <<>>
       /\ Returned => Result = AbstractExtractionResult(None, orch.method, FALSE,
                                                        Some(<<"File not found">>))

C9_Witness == Returned /\ ~orch.pdf_path.exists

\* The extractors invoked so far: at most two, the requested one first, the
\* other one second and only with fallback set and a primary that returned None.
C10_Order ==
    /\ Len(orch.calls) <= 2
    /\ Len(orch.calls) >= 1 => orch.calls[1] = orch.method
    /\ Len(orch.calls) = 2
       => /\ orch.calls[2] = AltMethod(orch.method)
          /\ orch.fallback
          /\ ReturnsNone(PrimaryOutcome)

\* A step invokes at most one extractor, and the second invocation starts
\* from a state in which the first has completed by returning None.
C10_Step ==
    orch'.calls # orch.calls
    => /\ Len(orch'.calls) = Len(orch.calls) + 1
       /\ SubSeq(orch'.calls, 1, Len(orch.calls)) = orch.calls
       /\ Len(orch.calls) = 1
          => /\ ~IsNone(orch.primary)
             /\ ReturnsNone(Get(orch.primary))
             /\ orch.fallback

\* C10: the extractor invocations of a call are sequential and primary
\* first: the requested extractor at most once, the alternate at most once
\* and only after the primary has returned None with fallback true.
C10_SequentialPrimaryFirst == []C10_Order /\ [][C10_Step]_vars

C10_Witness ==
    /\ Returned
    /\ orch.calls = <<orch.method, AltMethod(orch.method)>>

----------------------------------------------------------------------------
(* Properties of extract_abstract_pymupdf, checked under SpecGap *)

\* C6: a call that opened the document has closed it when it returns or
\* raises.
C6_HandleReleasedOnEveryExit == GapDone(gap) => ~gap.doc_open

\* The claim's description of the multi-block case, on the input blocks.
\* Indices are Python indices; i is the index of the header block.
C7_Gap(blocks, j) == Idx(blocks, j)[2] - Idx(blocks, j - 1)[4]

\* the gaps recorded once blocks i+1 .. j are collected
C7_Gaps(blocks, i, j) == [m \in 1..(j - i - 1) |-> C7_Gap(blocks, i + 1 + m)]

\* |g - avg| > threshold * avg, for avg the mean of a non-empty list of gaps
C7_Deviates(g, gaps, threshold) ==
    LET n == Len(gaps)
        total == Sum(gaps)
    IN  threshold[2] * Abs(n * g - total) > threshold[1] * total

\* the last block of the warm-up
C7_WarmUpEnd(blocks, i, initial_blocks) ==
    LET last == Len(blocks) - 1
        want == i + (IF initial_blocks < 1 THEN 1 ELSE initial_blocks)
    IN  IF want < last THEN want ELSE last

\* collection stops at block j: it is the last block, or the next block's
\* gap deviates from the mean of the gaps recorded so far
C7_StopsAt(blocks, i, j, threshold) ==
    \/ j = Len(blocks) - 1
    \/ C7_Deviates(C7_Gap(blocks, j + 1), C7_Gaps(blocks, i, j), threshold)

C7_LastCollected(blocks, i, initial_blocks, threshold) ==
    LET w == C7_WarmUpEnd(blocks, i, initial_blocks)
    IN  CHOOSE k \in w..(Len(blocks) - 1) :
            /\ C7_StopsAt(blocks, i, k, threshold)
            /\ \A j \in w..(k - 1) : ~C7_StopsAt(blocks, i, j, threshold)

C7_MultiBlockCase ==
    /\ gap.pc \in {"warmup", "steady", "join", "returned"}
    /\ ~IsNone(gap.abstract_idx)
    /\ Len(gap.collected_blocks) > 0

----------------------------------------------------------------------------
(* Properties of extract_abstract_unstructured, checked under SpecAlign *)

C8_TopY(points) == points[1][2]

C8_BottomY(points) == points[2][2]

C8_LeftX(points) == points[1][1]

C8_RightX(points) == points[4][1]

C8_Height(points) == C8_BottomY(points) - C8_TopY(points)

\* the three constraints of the claim, for element points p and header points h
C8_Passes(p, h, x_tolerance) ==
    /\ C8_TopY(p) >= C8_BottomY(h)
    /\ C8_LeftX(p) <= C8_LeftX(h) + x_tolerance
    /\ C8_RightX(p) >= C8_RightX(h) - x_tolerance
    /\ C8_Height(p) > 2 * C8_Height(h)

C8_Distance(p, h) == C8_TopY(p) - C8_BottomY(h)

\* the first abstract-header element of the input, when it has coordinates
C8_HeaderWithCoordinates ==
    /\ align.pc \in {"returned"}
    /\ ~IsNone(FindAbstractHeader(align.pdf.elements))
    /\ HasCoordinates(Idx(align.pdf.elements, Get(FindAbstractHeader(align.pdf.elements))))

C8_Candidates ==
    LET es == align.pdf.elements
        h  == PointsOf(Idx(es, Get(FindAbstractHeader(es))))
    IN  {k \in 0..(Len(es) - 1) :
            /\ HasCoordinates(Idx(es, k))
            /\ C8_Passes(PointsOf(Idx(es, k)), h, align.x_tolerance)}

C8_Nearest ==
    LET es == align.pdf.elements
        h  == PointsOf(Idx(es, Get(FindAbstractHeader(es))))
    IN  {k \in C8_Candidates :
            \A j \in C8_Candidates :
                C8_Distance(PointsOf(Idx(es, k)), h) <= C8_Distance(PointsOf(Idx(es, j)), h)}

\* C8: when the first abstract header has coordinates, the extractor
\* returns None exactly when no element passes the three constraints, and
\* otherwise the cleaned text of a passing element at minimal vertical
\* distance from the header.
C8_NearestAlignedElement ==
    C8_HeaderWithCoordinates
    => /\ IsNone(align.ret) <=> C8_Candidates = {}
       /\ C8_Candidates # {}
          => \E k \in C8_Nearest :
                /\ align.closest_block = Some(k)
                /\ align.ret = Some(clean_text(Idx(align.pdf.elements, k).text))

\* A return that chose between two passing elements at different distances.
C8_Witness ==
    /\ C8_HeaderWithCoordinates
    /\ ~IsNone(align.ret)
    /\ C8_Nearest # C8_Candidates

====
